---- MODULE Spec2Model ----
(***************************************************************************)
(* A model of src/compiler.js: tokenizer, parser, traverser, transformer,  *)
(* codeGenerator and compiler.  Text is a sequence of one-character        *)
(* strings; positions are 0-based as in the source.                        *)
(***************************************************************************)
EXTENDS Integers, Sequences, FiniteSets, TLC

VARIABLES pc, input, currentPos, char, value, scan, tokens, stack, ast,
          lastWalk, newAst, output, visitor, visits, err

vars == <<pc, input, currentPos, char, value, scan, tokens, stack, ast,
          lastWalk, newAst, output, visitor, visits, err>>

----------------------------------------------------------------------------
(* Bounds                                                                  *)

MaxLen == 5

MaxTokens == 5

MaxOverrun == 2

----------------------------------------------------------------------------
(* Characters                                                              *)

Quote == "\""

Chars == {"(", ")", " ", "1", "a", Quote, "+"}

Undefined == "undefined"

UndefinedText == <<"u", "n", "d", "e", "f", "i", "n", "e", "d">>

\* input[i] : a read at or past input.length yields undefined
CharAt(s, i) == IF i < Len(s) THEN s[i + 1] ELSE Undefined

\* value += char : undefined is appended as the text "undefined"
Append2(v, c) == IF c = Undefined THEN v \o UndefinedText ELSE Append(v, c)

\* /\s/
Whitespace == {" ", "\t", "\n", "\r", "\f"}

\* /[0-9]/
Digits == {"0", "1", "2", "3", "4", "5", "6", "7", "8", "9"}

\* /[a-z]/i
Letters == {"a", "b", "c", "d", "e", "f", "g", "h", "i", "j", "k", "l", "m",
            "n", "o", "p", "q", "r", "s", "t", "u", "v", "w", "x", "y", "z",
            "A", "B", "C", "D", "E", "F", "G", "H", "I", "J", "K", "L", "M",
            "N", "O", "P", "Q", "R", "S", "T", "U", "V", "W", "X", "Y", "Z"}

\* whitespace.test(char) : test() converts undefined to the text "undefined",
\* which holds no white space
whitespace(c) == c \in Whitespace

\* numbers.test(char) : the text "undefined" holds no digit
numbers(c) == c \in Digits

\* letters.test(char) : the text "undefined" holds a letter
letters(c) == c \in Letters \/ c = Undefined

Token(t, v) == [type |-> t, value |-> v]

----------------------------------------------------------------------------
(* tokenizer                                                               *)

TokUnchanged == UNCHANGED <<input, stack, ast, lastWalk, newAst, output, visitor, visits, err>>

AtOuter == pc = "tokenizer" /\ scan = "outer" /\ currentPos < Len(input)

TokOpenParen ==
    /\ AtOuter
    /\ CharAt(input, currentPos) = "("
    /\ tokens' = Append(tokens, Token("paren", <<"(">>))
    /\ currentPos' = currentPos + 1
    /\ char' = CharAt(input, currentPos)
    /\ UNCHANGED <<pc, value, scan>>
    /\ TokUnchanged

TokCloseParen ==
    /\ AtOuter
    /\ CharAt(input, currentPos) = ")"
    /\ tokens' = Append(tokens, Token("paren", <<")">>))
    /\ currentPos' = currentPos + 1
    /\ char' = CharAt(input, currentPos)
    /\ UNCHANGED <<pc, value, scan>>
    /\ TokUnchanged

TokWhitespace ==
    /\ AtOuter
    /\ whitespace(CharAt(input, currentPos))
    /\ currentPos' = currentPos + 1
    /\ char' = CharAt(input, currentPos)
    /\ UNCHANGED <<pc, value, scan, tokens>>
    /\ TokUnchanged

TokNumberStart ==
    /\ AtOuter
    /\ numbers(CharAt(input, currentPos))
    /\ char' = CharAt(input, currentPos)
    /\ value' = <<>>
    /\ scan' = "number"
    /\ UNCHANGED <<pc, currentPos, tokens>>
    /\ TokUnchanged

TokNumberChar ==
    /\ pc = "tokenizer" /\ scan = "number"
    /\ numbers(char)
    /\ value' = Append2(value, char)
    /\ currentPos' = currentPos + 1
    /\ char' = CharAt(input, currentPos + 1)
    /\ UNCHANGED <<pc, scan, tokens>>
    /\ TokUnchanged

\* a wrong TokNumberEnd (a letter right after the digit run is rejected),
\* which C7_Amended must reject
TokNumberEndStrict ==
    /\ pc = "tokenizer" /\ scan = "number"
    /\ ~numbers(char)
    /\ IF char \in Letters
       THEN /\ pc' = "error"
            /\ err' = [in |-> "tokenizer", type |-> "TypeError",
                       message |-> "Unrecognized character", at |-> currentPos]
            /\ UNCHANGED <<tokens, scan>>
       ELSE /\ tokens' = Append(tokens, Token("number", value))
            /\ scan' = "outer"
            /\ UNCHANGED <<pc, err>>
    /\ UNCHANGED <<input, currentPos, char, value, stack, ast, lastWalk, newAst,
                   output, visitor, visits>>

TokNumberEnd ==
    /\ pc = "tokenizer" /\ scan = "number"
    /\ ~numbers(char)
    /\ tokens' = Append(tokens, Token("number", value))
    /\ scan' = "outer"
    /\ UNCHANGED <<pc, currentPos, char, value>>
    /\ TokUnchanged

TokStringStart ==
    /\ AtOuter
    /\ CharAt(input, currentPos) = Quote
    /\ value' = <<>>
    /\ currentPos' = currentPos + 1
    /\ char' = CharAt(input, currentPos + 1)
    /\ scan' = "string"
    /\ UNCHANGED <<pc, tokens>>
    /\ TokUnchanged

TokStringChar ==
    /\ pc = "tokenizer" /\ scan = "string"
    /\ char # Quote
    /\ currentPos < Len(input) + MaxOverrun
    /\ value' = Append2(value, char)
    /\ currentPos' = currentPos + 1
    /\ char' = CharAt(input, currentPos + 1)
    /\ UNCHANGED <<pc, scan, tokens>>
    /\ TokUnchanged

TokStringEnd ==
    /\ pc = "tokenizer" /\ scan = "string"
    /\ char = Quote
    /\ currentPos' = currentPos + 1
    /\ char' = CharAt(input, currentPos + 1)
    /\ tokens' = Append(tokens, Token("string", value))
    /\ scan' = "outer"
    /\ UNCHANGED <<pc, value>>
    /\ TokUnchanged

TokNameStart ==
    /\ AtOuter
    /\ LET c == CharAt(input, currentPos) IN
         /\ c \notin {"(", ")", Quote}
         /\ ~whitespace(c) /\ ~numbers(c)
         /\ letters(c)
         /\ char' = c
    /\ value' = <<>>
    /\ scan' = "name"
    /\ UNCHANGED <<pc, currentPos, tokens>>
    /\ TokUnchanged

TokNameChar ==
    /\ pc = "tokenizer" /\ scan = "name"
    /\ letters(char)
    /\ currentPos < Len(input) + MaxOverrun
    /\ value' = Append2(value, char)
    /\ currentPos' = currentPos + 1
    /\ char' = CharAt(input, currentPos + 1)
    /\ UNCHANGED <<pc, scan, tokens>>
    /\ TokUnchanged

TokNameEnd ==
    /\ pc = "tokenizer" /\ scan = "name"
    /\ ~letters(char)
    /\ tokens' = Append(tokens, Token("name", value))
    /\ scan' = "outer"
    /\ UNCHANGED <<pc, currentPos, char, value>>
    /\ TokUnchanged

TokError ==
    /\ AtOuter
    /\ LET c == CharAt(input, currentPos) IN
         /\ c \notin {"(", ")", Quote}
         /\ ~whitespace(c) /\ ~numbers(c) /\ ~letters(c)
         /\ char' = c
         /\ err' = [in |-> "tokenizer", type |-> "TypeError",
                    message |-> "Unrecognized character", at |-> currentPos]
    /\ pc' = "error"
    /\ UNCHANGED <<input, currentPos, value, scan, tokens, stack, ast, lastWalk,
                   newAst, output, visitor, visits>>

\* the outer loop ends, tokenizer returns tokens and compiler calls parser
TokReturn ==
    /\ pc = "tokenizer" /\ scan = "outer"
    /\ currentPos >= Len(input)
    /\ pc' = "parser"
    /\ currentPos' = 0
    /\ UNCHANGED <<input, char, value, scan, tokens, stack, ast, lastWalk,
                   newAst, output, visitor, visits, err>>

----------------------------------------------------------------------------
(* parser                                                                  *)

NumberLiteral(v) == [type |-> "NumberLiteral", value |-> v]

StringLiteral(v) == [type |-> "StringLiteral", value |-> v]

SourceCall(n, ps) == [type |-> "CallExpression", name |-> n, params |-> ps]

Program(b) == [type |-> "Program", body |-> b]

IsOpen(t) == t.type = "paren" /\ t.value = <<"(">>

IsClose(t) == t.type = "paren" /\ t.value = <<")">>

\* tokens[currentPos] is a token (not undefined)
HasToken == currentPos < Len(tokens)

CurToken == tokens[currentPos + 1]

\* the position at which walk() is about to be called: from the Program
\* loop (line 170) or from the params loop of the innermost call (line 146)
WalkCalled ==
    /\ pc = "parser"
    /\ HasToken
    /\ stack # <<>> => ~IsClose(CurToken)

\* the node walk() returns goes to ast.body (line 171) or to the params of
\* the call being built (line 148)
Deliver(node, from, to) ==
    /\ IF stack = <<>>
       THEN /\ ast' = Program(Append(ast.body, node))
            /\ stack' = stack
       ELSE /\ stack' = [stack EXCEPT ![Len(stack)].node.params = Append(@, node)]
            /\ ast' = ast
    /\ lastWalk' = <<from, to>>

ParUnchanged == UNCHANGED <<input, char, value, scan, tokens, newAst, output, visitor, visits>>

WalkNumber ==
    /\ WalkCalled
    /\ CurToken.type = "number"
    /\ currentPos' = currentPos + 1
    /\ Deliver(NumberLiteral(CurToken.value), currentPos, currentPos + 1)
    /\ UNCHANGED <<pc, err>>
    /\ ParUnchanged

WalkString ==
    /\ WalkCalled
    /\ CurToken.type = "string"
    /\ currentPos' = currentPos + 1
    /\ Deliver(StringLiteral(CurToken.value), currentPos, currentPos + 1)
    /\ UNCHANGED <<pc, err>>
    /\ ParUnchanged

\* lines 134-144 : the token after "(" is taken as the name, whatever its type
WalkCallOpen ==
    /\ WalkCalled
    /\ IsOpen(CurToken)
    /\ currentPos + 1 < Len(tokens)
    /\ stack' = Append(stack, [entry |-> currentPos,
                               node |-> SourceCall(tokens[currentPos + 2].value, <<>>)])
    /\ currentPos' = currentPos + 2
    /\ UNCHANGED <<pc, ast, lastWalk, err>>
    /\ ParUnchanged

\* line 140 : "(" is the last token, token.value reads a property of undefined
WalkCallTruncated ==
    /\ WalkCalled
    /\ IsOpen(CurToken)
    /\ currentPos + 1 >= Len(tokens)
    /\ pc' = "error"
    /\ currentPos' = currentPos + 1
    /\ err' = [in |-> "parser", type |-> "TypeError",
               message |-> "property of undefined", at |-> currentPos + 1]
    /\ UNCHANGED <<stack, ast, lastWalk>>
    /\ ParUnchanged

\* lines 146, 155-157 : the params loop meets ")" and walk returns the call
WalkCallClose ==
    /\ pc = "parser"
    /\ stack # <<>>
    /\ HasToken
    /\ IsClose(CurToken)
    /\ currentPos' = currentPos + 1
    /\ LET top == stack[Len(stack)]
           rest == SubSeq(stack, 1, Len(stack) - 1) IN
         /\ IF rest = <<>>
            THEN /\ ast' = Program(Append(ast.body, top.node))
                 /\ stack' = rest
            ELSE /\ stack' = [rest EXCEPT ![Len(rest)].node.params = Append(@, top.node)]
                 /\ ast' = ast
         /\ lastWalk' = <<top.entry, currentPos + 1>>
    /\ UNCHANGED <<pc, err>>
    /\ ParUnchanged

\* line 146 : the params loop runs off the tokens, token.type reads a property
\* of undefined
WalkCallOverrun ==
    /\ pc = "parser"
    /\ stack # <<>>
    /\ ~HasToken
    /\ pc' = "error"
    /\ err' = [in |-> "parser", type |-> "TypeError",
               message |-> "property of undefined", at |-> currentPos]
    /\ UNCHANGED <<currentPos, stack, ast, lastWalk>>
    /\ ParUnchanged

\* line 161 : a name token, or a ")" met by the Program loop
WalkThrow ==
    /\ WalkCalled
    /\ CurToken.type \notin {"number", "string"}
    /\ ~IsOpen(CurToken)
    /\ pc' = "error"
    /\ err' = [in |-> "parser", type |-> "TypeError",
               message |-> CurToken.type, at |-> currentPos]
    /\ UNCHANGED <<currentPos, stack, ast, lastWalk>>
    /\ ParUnchanged

\* lines 170-174 : the Program loop ends and parser returns ast
ParserReturn ==
    /\ pc = "parser"
    /\ stack = <<>>
    /\ ~HasToken
    /\ pc' = "parsed"
    /\ UNCHANGED <<currentPos, stack, ast, lastWalk, err>>
    /\ ParUnchanged

----------------------------------------------------------------------------
(* traverser                                                               *)

\* A node is named by its path from the root: <<>> is the Program, <<i>> its
\* i-th body node, p \o <<j>> the j-th param of the call at p.  Null is the
\* parent the root is visited with.
Null == <<0>>

NodeTypes == {"Program", "CallExpression", "NumberLiteral", "StringLiteral"}

Callbacks == {"enter", "exit"}

VisitorTables == [NodeTypes -> SUBSET Callbacks]

\* the switch of traverseNode: body for Program, params for CallExpression,
\* nothing for the literals
ChildrenOf(node) ==
    CASE node.type = "Program" -> node.body
      [] node.type = "CallExpression" -> node.params
      [] OTHER -> <<>>

\* a wrong ForEachOrder (children handed over last to first), which
\* C8_PreOrder must reject
ReverseOrder(n) == [i \in 1..n |-> n + 1 - i]

\* the order in which array.forEach hands the children to traverseNode
ForEachOrder(n) == [i \in 1..n |-> i]

\* the parent traverseArray passes on to traverseNode for each child
ParentPassed(parent, grandparent) == parent

\* methods.enter(node, parent) / methods.exit(node, parent)
Call(cb, methods, node, parent) ==
    IF cb \in methods THEN <<[cb |-> cb, node |-> node, parent |-> parent]>> ELSE <<>>

RECURSIVE traverseNode(_, _, _, _), traverseArray(_, _, _, _, _, _)

traverseArray(array, order, k, path, parent, table) ==
    IF k > Len(order) THEN <<>>
    ELSE traverseNode(array[order[k]], path \o <<order[k]>>,
                      ParentPassed(path, parent), table)
         \o traverseArray(array, order, k + 1, path, parent, table)

traverseNode(node, path, parent, table) ==
    LET methods == table[node.type]
        array == ChildrenOf(node) IN
      Call("enter", methods, path, parent)
      \o traverseArray(array, ForEachOrder(Len(array)), 1, path, parent, table)
      \o Call("exit", methods, path, parent)

traverser(tree, table) == traverseNode(tree, <<>>, Null, table)

RECURSIVE NodeAt(_, _)

NodeAt(node, path) ==
    IF path = <<>> THEN node ELSE NodeAt(ChildrenOf(node)[Head(path)], Tail(path))

----------------------------------------------------------------------------
(* transformer                                                             *)

Identifier(n) == [type |-> "Identifier", name |-> n]

TargetCall(n, as) == [type |-> "CallExpression", callee |-> Identifier(n), arguments |-> as]

ExpressionStatement(e) == [type |-> "ExpressionStatement", expression |-> e]

\* the three enter-only entries of the visitor the transformer hands over
TransformerVisitor ==
    [t \in NodeTypes |-> IF t = "Program" THEN {} ELSE {"enter"}]

\* A _context is a reference to an array of the new tree, named here by the
\* place of that array: <<>> is newAst.body, c \o <<i>> the arguments of the
\* call held (wrapped or not) at index i of the array at c.
RECURSIVE Push(_, _, _), ArrayLen(_, _)

Push(node, ctx, new) ==
    CASE node.type = "Program" ->
           IF ctx = <<>> THEN [node EXCEPT !.body = Append(@, new)]
           ELSE [node EXCEPT !.body[Head(ctx)] = Push(@, Tail(ctx), new)]
      [] node.type = "ExpressionStatement" ->
           [node EXCEPT !.expression = Push(@, ctx, new)]
      [] node.type = "CallExpression" ->
           IF ctx = <<>> THEN [node EXCEPT !.arguments = Append(@, new)]
           ELSE [node EXCEPT !.arguments[Head(ctx)] = Push(@, Tail(ctx), new)]

ArrayLen(node, ctx) ==
    CASE node.type = "Program" ->
           IF ctx = <<>> THEN Len(node.body) ELSE ArrayLen(node.body[Head(ctx)], Tail(ctx))
      [] node.type = "ExpressionStatement" -> ArrayLen(node.expression, ctx)
      [] node.type = "CallExpression" ->
           IF ctx = <<>> THEN Len(node.arguments)
           ELSE ArrayLen(node.arguments[Head(ctx)], Tail(ctx))

\* a wrong NeedsStatement (every call is wrapped), which C2_Wrapping must
\* reject
AlwaysStatement(parent) == TRUE

\* line 258
NeedsStatement(parent) == parent.type # "CallExpression"

\* the enter callbacks: st.tree is newAst, st.context[p] the _context of the
\* source node at path p
Enter(tree, st, ev) ==
    LET node == NodeAt(tree, ev.node)
        parent == NodeAt(tree, ev.parent)
        ctx == st.context[ev.parent] IN
      IF node.type = "CallExpression"
      THEN LET expression == TargetCall(node.name, <<>>)
               own == ctx \o <<ArrayLen(st.tree, ctx) + 1>> IN
             [tree |-> Push(st.tree, ctx,
                            IF NeedsStatement(parent)
                            THEN ExpressionStatement(expression) ELSE expression),
              context |-> (ev.node :> own) @@ st.context]
      ELSE [st EXCEPT !.tree = Push(@, ctx, [type |-> node.type, value |-> node.value])]

RECURSIVE Visit(_, _, _, _)

Visit(tree, st, evs, k) ==
    IF k > Len(evs) THEN st ELSE Visit(tree, Enter(tree, st, evs[k]), evs, k + 1)

transformer(tree) ==
    Visit(tree, [tree |-> Program(<<>>), context |-> (<<>> :> <<>>)],
          traverser(tree, TransformerVisitor), 1).tree

----------------------------------------------------------------------------
(* codeGenerator                                                           *)

RECURSIVE Join(_, _)

Join(parts, sep) ==
    IF parts = <<>> THEN <<>>
    ELSE IF Len(parts) = 1 THEN parts[1]
    ELSE parts[1] \o sep \o Join(Tail(parts), sep)

\* a wrong StatementEnd (the statement is left unterminated), which
\* C1_Amended must reject
NoStatementEnd == <<>>

\* line 280
StatementEnd == <<";">>

RECURSIVE codeGenerator(_)

codeGenerator(node) ==
    CASE node.type = "Program" ->
           Join([i \in 1..Len(node.body) |-> codeGenerator(node.body[i])], <<"\n">>)
      [] node.type = "ExpressionStatement" ->
           codeGenerator(node.expression) \o StatementEnd
      [] node.type = "CallExpression" ->
           codeGenerator(node.callee) \o <<"(">>
           \o Join([i \in 1..Len(node.arguments) |-> codeGenerator(node.arguments[i])],
                   <<",", " ">>)
           \o <<")">>
      [] node.type = "Identifier" -> node.name
      [] node.type = "NumberLiteral" -> node.value
      [] node.type = "StringLiteral" -> <<Quote>> \o node.value \o <<Quote>>

----------------------------------------------------------------------------
(* compiler, and the exported functions called on a parsed tree            *)

\* let newAst = transformer(ast)
Transformer ==
    /\ pc = "parsed"
    /\ newAst' = transformer(ast)
    /\ pc' = "transformed"
    /\ UNCHANGED <<input, currentPos, char, value, scan, tokens, stack, ast,
                   lastWalk, output, visitor, visits, err>>

\* let output = codeGenerator(newAst); return output
CodeGenerator ==
    /\ pc = "transformed"
    /\ output' = codeGenerator(newAst)
    /\ pc' = "done"
    /\ UNCHANGED <<input, currentPos, char, value, scan, tokens, stack, ast,
                   lastWalk, newAst, visitor, visits, err>>

\* traverser(ast, visitor) with a visitor that records each callback it gets
Traverser ==
    /\ pc = "parsed"
    /\ \E table \in VisitorTables :
         /\ visitor' = table
         /\ visits' = traverser(ast, table)
    /\ pc' = "traversed"
    /\ UNCHANGED <<input, currentPos, char, value, scan, tokens, stack, ast,
                   lastWalk, newAst, output, err>>

----------------------------------------------------------------------------

NoError == [in |-> "none", type |-> "none", message |-> "none", at |-> 0]

Strings(S, n) == UNION {[1..k -> S] : k \in 0..n}

TokenKinds == {Token("paren", <<"(">>), Token("paren", <<")">>),
               Token("number", <<"1">>),
               Token("string", <<"a">>), Token("name", <<"a">>)}

\* the input of the README's Limitations section: cry 10 5
ReadmeInput == <<"c", "r", "y", " ", "1", "0", " ", "5">>

\* the input of the README's first example: (add 2 (subtract 4 3))
ExampleInput == <<"(", "a", "d", "d", " ", "2", " ", "(", "s", "u", "b", "t", "r", "a", "c", "t", " ", "4", " ", "3", ")", ")">>

Examples == {ReadmeInput, ExampleInput}

InitCommon ==
    /\ currentPos = 0
    /\ char = Undefined
    /\ value = <<>>
    /\ scan = "outer"
    /\ stack = <<>>
    /\ ast = Program(<<>>)
    /\ lastWalk = <<>>
    /\ newAst = Program(<<>>)
    /\ output = <<>>
    /\ visitor = [t \in NodeTypes |-> {}]
    /\ visits = <<>>
    /\ err = NoError

\* compiler(input), or parser(tokens) called on its own
Init ==
    /\ InitCommon
    /\ \/ /\ pc = "tokenizer"
          /\ input \in Strings(Chars, MaxLen) \cup Examples
          /\ tokens = <<>>
       \/ /\ pc = "parser"
          /\ input = <<>>
          /\ tokens \in Strings(TokenKinds, MaxTokens)

Next ==
    \/ TokOpenParen \/ TokCloseParen \/ TokWhitespace
    \/ TokNumberStart \/ TokNumberChar \/ TokNumberEnd
    \/ TokStringStart \/ TokStringChar \/ TokStringEnd
    \/ TokNameStart \/ TokNameChar \/ TokNameEnd
    \/ TokError \/ TokReturn
    \/ WalkNumber \/ WalkString \/ WalkCallOpen \/ WalkCallTruncated
    \/ WalkCallClose \/ WalkCallOverrun \/ WalkThrow \/ ParserReturn
    \/ Transformer \/ CodeGenerator \/ Traverser

Spec == Init /\ [][Next]_vars

----------------------------------------------------------------------------
(* The grammar and the bracket structure of a token sequence, stated       *)
(* without reference to the parser.  Token positions are 0-based.          *)

RECURSIVE NodeEnd(_, _), ArgsEnd(_, _), Forms(_, _)

\* the position after the Node that starts at i, or -1 when none does:
\* Node := Number | String | Call, Call := '(' name Node* ')'
NodeEnd(ts, i) ==
    IF i >= Len(ts) THEN -1
    ELSE IF ts[i + 1].type \in {"number", "string"} THEN i + 1
    ELSE IF IsOpen(ts[i + 1]) /\ i + 1 < Len(ts) /\ ts[i + 2].type = "name"
         THEN ArgsEnd(ts, i + 2)
    ELSE -1

ArgsEnd(ts, i) ==
    IF i >= Len(ts) THEN -1
    ELSE IF IsClose(ts[i + 1]) THEN i + 1
    ELSE LET e == NodeEnd(ts, i) IN IF e = -1 THEN -1 ELSE ArgsEnd(ts, e)

\* the number of top-level forms of Program := Node*, or -1
Forms(ts, i) ==
    IF i = Len(ts) THEN 0
    ELSE LET e == NodeEnd(ts, i) IN
           IF e = -1 THEN -1
           ELSE LET r == Forms(ts, e) IN IF r = -1 THEN -1 ELSE r + 1

MatchesGrammar(ts) == Forms(ts, 0) >= 0

RECURSIVE OpenDepth(_, _), MatchScan(_, _, _), TopCount(_, _)

\* the number of "(" still open after the first k tokens
OpenDepth(ts, k) ==
    IF k = 0 THEN 0
    ELSE LET d == OpenDepth(ts, k - 1) IN
           IF IsOpen(ts[k]) THEN d + 1
           ELSE IF IsClose(ts[k]) /\ d > 0 THEN d - 1
           ELSE d

UnmatchedOpen(ts) == OpenDepth(ts, Len(ts)) > 0

MatchScan(ts, j, d) ==
    IF j >= Len(ts) THEN -1
    ELSE IF IsOpen(ts[j + 1]) THEN MatchScan(ts, j + 1, d + 1)
    ELSE IF IsClose(ts[j + 1]) THEN (IF d = 1 THEN j ELSE MatchScan(ts, j + 1, d - 1))
    ELSE MatchScan(ts, j + 1, d)

\* the position of the ")" that matches the "(" at position i, or -1
MatchOf(ts, i) == MatchScan(ts, i + 1, 1)

\* whether tokens from..to-1 are one number, one string, or one "(" with
\* everything up to its matching ")"
OneConstruct(ts, from, to) ==
    /\ from < to /\ to <= Len(ts)
    /\ \/ to = from + 1 /\ ts[from + 1].type \in {"number", "string"}
       \/ IsOpen(ts[from + 1]) /\ MatchOf(ts, from) = to - 1

\* the number of top-level constructs, or -1
TopCount(ts, i) ==
    IF i >= Len(ts) THEN 0
    ELSE LET e == IF ts[i + 1].type \in {"number", "string"} THEN i + 1
                  ELSE IF IsOpen(ts[i + 1]) /\ MatchOf(ts, i) # -1 THEN MatchOf(ts, i) + 1
                  ELSE -1 IN
           IF e = -1 THEN -1
           ELSE LET r == TopCount(ts, e) IN IF r = -1 THEN -1 ELSE r + 1

Returned == pc \in {"parsed", "transformed", "done", "traversed"}

Last(s) == s[Len(s)]

----------------------------------------------------------------------------
(* C1                                                                      *)

Statements == [i \in 1..Len(newAst.body) |-> codeGenerator(newAst.body[i])]

Compiled == pc = "done" /\ input # <<>> /\ MatchesGrammar(tokens)

\* C1 as stated: for a source text matching the grammar, compiler returns
\* one statement per top-level form and every statement, a top-level
\* number or string included, ends in ";".
C1_Original ==
    Compiled =>
      /\ Len(newAst.body) = Forms(tokens, 0)
      /\ output = Join(Statements, <<"\n">>)
      /\ \A i \in 1..Len(newAst.body) : Last(Statements[i]) = ";"

\* C1 amended: for a source text matching the grammar, compiler returns one
\* statement per top-level form, joined by newlines; the statement of a
\* top-level call ends in ";", and a top-level number or string is
\* rendered as the bare literal, without ";".
C1_Amended ==
    Compiled =>
      /\ Len(newAst.body) = Forms(tokens, 0)
      /\ Len(ast.body) = Forms(tokens, 0)
      /\ output = Join(Statements, <<"\n">>)
      /\ \A i \in 1..Len(newAst.body) :
           IF ast.body[i].type = "CallExpression"
           THEN Last(Statements[i]) = ";"
           ELSE /\ Last(Statements[i]) # ";"
                /\ Statements[i] = codeGenerator(ast.body[i])

C1_Witness ==
    /\ Compiled
    /\ \E i, j \in 1..Len(ast.body) :
         /\ ast.body[i].type = "CallExpression"
         /\ ast.body[j].type \in {"NumberLiteral", "StringLiteral"}

----------------------------------------------------------------------------
(* C2                                                                      *)

RECURSIVE Wrapped(_, _, _)

\* the target node t is what the source node s must become, given whether
\* the source parent of s is a call
Wrapped(s, t, inCall) ==
    IF s.type = "CallExpression"
    THEN LET e == IF inCall THEN t ELSE t.expression IN
           /\ t.type = IF inCall THEN "CallExpression" ELSE "ExpressionStatement"
           /\ e.type = "CallExpression"
           /\ e.callee = Identifier(s.name)
           /\ Len(e.arguments) = Len(s.params)
           /\ \A j \in 1..Len(s.params) : Wrapped(s.params[j], e.arguments[j], TRUE)
           /\ Last(codeGenerator(t)) = IF inCall THEN ")" ELSE ";"
    ELSE t = [type |-> s.type, value |-> s.value]

----------------------------------------------------------------------------
(* C3                                                                      *)

RECURSIVE QuoteAfter(_, _), DigitsEnd(_, _), Literals(_, _)

\* the index of the first quote at or after i, or the last index
QuoteAfter(text, i) ==
    IF i >= Len(text) THEN Len(text)
    ELSE IF text[i] = Quote THEN i ELSE QuoteAfter(text, i + 1)

\* the last index of the digit run that starts at i
DigitsEnd(text, i) ==
    IF i < Len(text) /\ text[i + 1] \in Digits THEN DigitsEnd(text, i + 1) ELSE i

\* the literals of a text in order: quoted strings (quotes included) and
\* maximal digit runs outside them
Literals(text, i) ==
    IF i > Len(text) THEN <<>>
    ELSE IF text[i] = Quote
         THEN LET j == QuoteAfter(text, i + 1) IN
                <<SubSeq(text, i, j)>> \o Literals(text, j + 1)
    ELSE IF text[i] \in Digits
         THEN LET j == DigitsEnd(text, i) IN
                <<SubSeq(text, i, j)>> \o Literals(text, j + 1)
    ELSE Literals(text, i + 1)

\* C3 as stated: for every input compiler accepts, the number and string
\* literals of the source are the number and string literals of the
\* output, character for character and in the same order, each string
\* inside one pair of double quotes.
C3_Original ==
    (pc = "done" /\ input # <<>>) => Literals(output, 1) = Literals(input, 1)

----------------------------------------------------------------------------
(* C4                                                                      *)

\* C4 as stated: while it scans a string the tokenizer never goes on past
\* the end of the input (an unterminated string ends in a lexical error).
C4_Original ==
    (pc = "tokenizer" /\ scan = "string") => currentPos <= Len(input)

----------------------------------------------------------------------------
(* C5                                                                      *)

\* C5 as stated: when some "(" of the token sequence has no matching ")",
\* parser fails and returns no Program.
C5_Original == UnmatchedOpen(tokens) => ~Returned

----------------------------------------------------------------------------
(* C6                                                                      *)

\* C6 as stated: parser returns only when the token after every "(" is a
\* name token; otherwise it raises an error.
C6_Original ==
    Returned =>
      \A i \in 1..Len(tokens) :
        IsOpen(tokens[i]) => (i < Len(tokens) /\ tokens[i + 1].type = "name")

----------------------------------------------------------------------------
(* C7                                                                      *)

\* the tokenizer is at the top of its loop on a letter that immediately
\* follows a digit run
AtDigitLetter ==
    /\ AtOuter
    /\ currentPos > 0
    /\ input[currentPos] \in Digits
    /\ CharAt(input, currentPos) \in Letters
    /\ tokens # <<>> /\ Last(tokens).type = "number"

\* C7 as stated: where a digit run is immediately followed by a letter the
\* tokenizer fails with a lexical error at the letter.
C7_Original == [][AtDigitLetter => (pc' = "error" /\ err'.at = currentPos)]_vars

\* the position where the name being scanned, or just pushed, starts
NameStart == IF scan = "name" THEN currentPos - Len(value)
             ELSE currentPos - Len(Last(tokens).value)

\* C7 amended: where a digit run is immediately followed by a letter the
\* tokenizer raises no error (it never fails at a letter): it pushes the
\* number token of the digit run and scans a separate name token from the
\* letter on, so that "1a " gives number "1" followed by name "a".
C7_Amended ==
    /\ (pc = "error" /\ err.in = "tokenizer") => CharAt(input, err.at) \notin Letters
    /\ AtDigitLetter => Last(tokens).value = SubSeq(input, currentPos + 1 - Len(Last(tokens).value), currentPos)
    /\ (/\ pc = "tokenizer" /\ currentPos <= Len(input)
        /\ \/ scan = "name"
           \/ /\ scan = "outer" /\ tokens # <<>> /\ Last(tokens).type = "name"
              /\ currentPos > 0 /\ input[currentPos] \in Letters
        /\ NameStart > 0
        /\ input[NameStart] \in Digits)
       => LET k == IF scan = "name" THEN Len(tokens) ELSE Len(tokens) - 1 IN
            /\ k >= 1
            /\ tokens[k].type = "number"
            /\ tokens[k].value = SubSeq(input, NameStart + 1 - Len(tokens[k].value), NameStart)

C7_Witness ==
    /\ pc = "parser"
    /\ input = <<"1", "a", " ">>
    /\ tokens = <<Token("number", <<"1">>), Token("name", <<"a">>)>>

----------------------------------------------------------------------------
(* C8                                                                      *)

RECURSIVE PathsOf(_, _)

\* the paths of all nodes of the tree under node
PathsOf(node, path) ==
    {path} \cup UNION {PathsOf(ChildrenOf(node)[i], path \o <<i>>) :
                         i \in 1..Len(ChildrenOf(node))}

IsPrefix(p, q) == Len(p) < Len(q) /\ SubSeq(q, 1, Len(p)) = p

\* p and q are in no ancestor relation and p lies to the left of q
LeftOf(p, q) ==
    \E k \in 1..Len(p) :
      /\ k <= Len(q)
      /\ SubSeq(p, 1, k - 1) = SubSeq(q, 1, k - 1)
      /\ p[k] < q[k]

\* callback a comes before callback b in a pre-order, depth-first,
\* left-to-right walk with enter before and exit after the descendants
Precedes(a, b) ==
    \/ a.node = b.node /\ a.cb = "enter" /\ b.cb = "exit"
    \/ IsPrefix(a.node, b.node) /\ a.cb = "enter"
    \/ IsPrefix(b.node, a.node) /\ b.cb = "exit"
    \/ LeftOf(a.node, b.node)

ParentOf(p) == IF p = <<>> THEN Null ELSE SubSeq(p, 1, Len(p) - 1)

\* C8: traverser calls, for every node, each callback the visitor table
\* has for its type exactly once, and no other; enter comes before and
\* exit after all callbacks of the descendants, siblings are visited left
\* to right, each callback gets the node's actual parent and the root is
\* visited with parent null.
C8_PreOrder ==
    pc = "traversed" =>
      /\ \A p \in PathsOf(ast, <<>>) : \A cb \in Callbacks :
           Cardinality({k \in 1..Len(visits) :
                          visits[k].node = p /\ visits[k].cb = cb})
             = IF cb \in visitor[NodeAt(ast, p).type] THEN 1 ELSE 0
      /\ \A k \in 1..Len(visits) :
           /\ visits[k].node \in PathsOf(ast, <<>>)
           /\ visits[k].parent = ParentOf(visits[k].node)
      /\ \A k, l \in 1..Len(visits) : k < l => Precedes(visits[k], visits[l])

C8_Witness ==
    /\ pc = "traversed"
    /\ \A t \in NodeTypes : visitor[t] = Callbacks
    /\ \E i \in 1..Len(ast.body) :
         /\ ast.body[i].type = "CallExpression"
         /\ Len(ast.body[i].params) >= 2
         /\ \E j \in 1..Len(ast.body[i].params) :
              /\ ast.body[i].params[j].type = "CallExpression"
              /\ Len(ast.body[i].params[j].params) >= 2
    /\ Len(visits) = 2 * Cardinality(PathsOf(ast, <<>>))

----------------------------------------------------------------------------
(* C9                                                                      *)

\* C9 as stated: compiler on the README's input  cry 10 5  returns
\* cry(10, 5)  rather than failing.
C9_Original ==
    (input = ReadmeInput /\ pc \in {"done", "error"}) =>
      /\ pc = "done"
      /\ output = <<"c", "r", "y", "(", "1", "0", ",", " ", "5", ")">>

----------------------------------------------------------------------------
(* C10                                                                     *)

\* C10 as stated: every walk that returns has consumed exactly one complete
\* construct (a number, a string, or a "(" up to its matching ")"), leaving
\* the cursor greater than on entry and at most tokens.length; when parser
\* returns, the cursor is tokens.length and body holds one node per
\* top-level construct.
C10_Original ==
    /\ (pc = "parser" /\ lastWalk # <<>>) =>
         /\ lastWalk[1] < lastWalk[2]
         /\ lastWalk[2] <= Len(tokens)
         /\ OneConstruct(tokens, lastWalk[1], lastWalk[2])
    /\ pc = "parsed" =>
         /\ currentPos = Len(tokens)
         /\ Len(ast.body) = TopCount(tokens, 0)

====
